---- MODULE Spec2Model ----
\* Protocol/gateway layer of mcp-server-airbnb: the HTTP gateway
\* (http-server.ts, here src/unnamed/part_002) and the stdio runner
\* (src/index.ts), with the tool implementations of mcp-core as collaborators.
EXTENDS Integers, Sequences, FiniteSets, TLC

VARIABLES
    envTokens,         \* process.env.MCP_ACCESS_TOKENS after split(','), <<>> when unset
    validTokenHashes,  \* HTTPMCPServer.validTokenHashes
    bootLog,           \* log lines written by the constructor
    reqs,              \* per connection: the request being handled and how far it got
    launch,            \* process.argv.slice(2) and process.env.MCP_MODE of the process
    proc               \* per transport: how far its startup got, and how it ended

vars == <<envTokens, validTokenHashes, bootLog, reqs, launch, proc>>

------------------------------------------------------------------------------
\* Strings. A string is a sequence of one-character strings over Chars.

MaxTokLen == 2      \* longest configured entry
MaxEntries == 2     \* most entries in MCP_ACCESS_TOKENS

Chars == {"a", " "}

Strs(n) == UNION {[1..k -> Chars] : k \in 0..n}

RECURSIVE TrimStart(_)
TrimStart(s) == IF s # <<>> /\ Head(s) = " " THEN TrimStart(Tail(s)) ELSE s

RECURSIVE TrimEnd(_)
TrimEnd(s) ==
    IF s # <<>> /\ s[Len(s)] = " " THEN TrimEnd(SubSeq(s, 1, Len(s) - 1)) ELSE s

\* String.prototype.trim
Trim(s) == TrimEnd(TrimStart(s))

\* crypto.createHash('sha256').update(s).digest('hex'): a one-way digest,
\* taken to be collision-free; "#" is no character of a token, so a digest
\* is never equal to a plaintext.
Sha256(s) == <<"#">> \o s

\* hash.substring(0, 8) + '...'
HashPrefix(h) == <<"#8">> \o Tail(h)

------------------------------------------------------------------------------
\* JSON values. An object is a function from keys to values; a key that is
\* absent reads as undefined. Numbers are written "n:<digits>", strings of ids
\* and arguments "s:<text>".

Undefined == "undefined"
Null == "null"
EmptyObj == <<>>

Has(o, k) == k \in DOMAIN o
Get(o, k) == IF k \in DOMAIN o THEN o[k] ELSE Undefined

\* JavaScript truthiness of the scalar values the handlers test
Truthy(v) == v \notin {Undefined, Null, "", "n:0", "s:"}

\* v || null
OrNull(v) == IF Truthy(v) THEN v ELSE Null

\* { ...base, ...over }: the later spread wins
Spread(base, over) ==
    [k \in DOMAIN base \cup DOMAIN over |->
        IF k \in DOMAIN over THEN over[k] ELSE base[k]]

\* JSON.stringify drops a key whose value is undefined
WithKey(o, k, v) == IF v = Undefined THEN o ELSE Spread(o, [x \in {k} |-> v])

------------------------------------------------------------------------------
\* Logging (log of mcp-core): a line is level, message and data.

LogLine(level, msg, data) == [level |-> level, msg |-> msg, data |-> data]

------------------------------------------------------------------------------
\* Token store

\* process.env.MCP_ACCESS_TOKENS?.split(',') || []
Pats(env) == env

\* The forEach of setupAuthentication hashing pat instead of pat.trim()
RECURSIVE LoadHashesNoTrim(_)
LoadHashesNoTrim(pats) ==
    IF pats = <<>> THEN {}
    ELSE (IF Trim(Head(pats)) # <<>> THEN {Sha256(Head(pats))} ELSE {})
         \cup LoadHashesNoTrim(Tail(pats))

\* The forEach of setupAuthentication: the digests it adds
RECURSIVE LoadHashes(_)
LoadHashes(pats) ==
    IF pats = <<>> THEN {}
    ELSE (IF Trim(Head(pats)) # <<>> THEN {Sha256(Trim(Head(pats)))} ELSE {})
         \cup LoadHashes(Tail(pats))

\* The forEach of setupAuthentication logging the token it loaded
RECURSIVE LoadLogPlaintext(_)
LoadLogPlaintext(pats) ==
    IF pats = <<>> THEN <<>>
    ELSE (IF Trim(Head(pats)) # <<>>
          THEN <<LogLine("info", "Access token loaded",
                         [tokenHash |-> Trim(Head(pats))])>>
          ELSE <<>>)
         \o LoadLogPlaintext(Tail(pats))

RECURSIVE LoadLog(_)
LoadLog(pats) ==
    IF pats = <<>> THEN <<>>
    ELSE (IF Trim(Head(pats)) # <<>>
          THEN <<LogLine("info", "Access token loaded",
                         [tokenHash |-> HashPrefix(Sha256(Trim(Head(pats))))])>>
          ELSE <<>>)
         \o LoadLog(Tail(pats))

\* HTTPMCPServer.setupAuthentication
SetupAuthentication(env) ==
    [hashes |-> LoadHashes(Pats(env)),
     log |-> (IF Len(Pats(env)) = 0
              THEN <<LogLine("warn",
                  "No access tokens configured. Server will reject all requests.",
                  EmptyObj)>>
              ELSE <<>>) \o LoadLog(Pats(env))]

\* An Authorization header is <<>> when absent, else its first element is the
\* text up to and including the first space ("Bearer ", "Basic ") or the whole
\* of a header without one ("Bearer"), followed by the remaining characters.
NoHeader == <<>>
StartsWithBearer(h) == h # <<>> /\ Head(h) = "Bearer "

Response(status, body) == [status |-> status, body |-> body]

\* authenticateToken without the lookup in validTokenHashes
AuthenticateTokenNoLookup(authHeader, hashes) ==
    IF authHeader = NoHeader \/ ~StartsWithBearer(authHeader)
    THEN [next |-> FALSE, user |-> <<>>, log |-> <<>>,
          response |-> Response(401, [error |->
              "Missing or invalid authorization header. Expected: Bearer <token>"])]
    ELSE [next |-> TRUE, user |-> Sha256(Tail(authHeader)), log |-> <<>>,
          response |-> Response(0, EmptyObj)]

\* authenticateToken attaching the presented token as the identity
AuthenticateTokenPlainUser(authHeader, hashes) ==
    IF authHeader = NoHeader \/ ~StartsWithBearer(authHeader)
    THEN [next |-> FALSE, user |-> <<>>, log |-> <<>>,
          response |-> Response(401, [error |->
              "Missing or invalid authorization header. Expected: Bearer <token>"])]
    ELSE LET token == Tail(authHeader)
             tokenHash == Sha256(token)
         IN  IF tokenHash \notin hashes
             THEN [next |-> FALSE, user |-> <<>>,
                   log |-> <<LogLine("warn", "Invalid token attempt",
                                     [tokenHash |-> HashPrefix(tokenHash)])>>,
                   response |-> Response(401, [error |-> "Invalid access token"])]
             ELSE [next |-> TRUE, user |-> token, log |-> <<>>,
                   response |-> Response(0, EmptyObj)]

\* HTTPMCPServer.authenticateToken: next is TRUE when next() was called
AuthenticateToken(authHeader, hashes) ==
    IF authHeader = NoHeader \/ ~StartsWithBearer(authHeader)
    THEN [next |-> FALSE, user |-> <<>>, log |-> <<>>,
          response |-> Response(401, [error |->
              "Missing or invalid authorization header. Expected: Bearer <token>"])]
    ELSE LET token == Tail(authHeader)
             tokenHash == Sha256(token)
         IN  IF tokenHash \notin hashes
             THEN [next |-> FALSE, user |-> <<>>,
                   log |-> <<LogLine("warn", "Invalid token attempt",
                                     [tokenHash |-> HashPrefix(tokenHash)])>>,
                   response |-> Response(401, [error |-> "Invalid access token"])]
             ELSE [next |-> TRUE, user |-> tokenHash, log |-> <<>>,
                   response |-> Response(0, EmptyObj)]

------------------------------------------------------------------------------
\* Tool registry and collaborators

\* ErrorCode of the MCP SDK
ParseError == -32700
InvalidRequest == -32600
MethodNotFound == -32601
InvalidParams == -32602
InternalError == -32603
RequestTimeout == -32001

\* AIRBNB_TOOLS, in declaration order
AIRBNB_TOOLS == <<[name |-> "airbnb_search"], [name |-> "airbnb_listing_details"]>>

\* new McpError(code, message) and new Error(message)
McpError(code, message) == [isMcp |-> TRUE, code |-> code, message |-> message]
PlainError(message) == [isMcp |-> FALSE, code |-> 0, message |-> message]

\* What a call of handleAirbnbSearch / handleAirbnbListingDetails can come to:
\* a payload, a payload marked isError, or a thrown failure.
ErrMsgs == {"ECONNRESET at 10.0.0.7", "boom"}
ToolOutcomes ==
    {[kind |-> "ok", error |-> PlainError("")],
     [kind |-> "appError", error |-> PlainError("")]}
    \cup {[kind |-> "throw", error |-> PlainError(m)] : m \in ErrMsgs}
    \cup {[kind |-> "throw", error |-> McpError(c, "upstream")] :
             c \in {InternalError, RequestTimeout}}

\* The payload a collaborator returns: it depends on the tool and on the
\* arguments it was given and on nothing else.
ToolPayload(tool, args, o) ==
    [content |-> [tool |-> tool, args |-> args], isError |-> (o.kind = "appError")]

------------------------------------------------------------------------------
\* Connections

NoReq == [route |-> "", pathId |-> "", header |-> NoHeader,
          raw |-> [ok |-> TRUE, json |-> EmptyObj]]

\* call is the collaborator call in flight, calls every call made for the
\* request, settled what those calls came to, responses what was sent back.
IdleSlot == [pc |-> "idle", surface |-> "none", req |-> NoReq, user |-> <<>>,
             call |-> <<>>, calls |-> <<>>, settled |-> <<>>,
             responses |-> <<>>, logged |-> <<>>]

\* res.status(..).json(..) ends the handling of the request
Done(slot, resp, lines) ==
    [slot EXCEPT !.pc = "done", !.call = <<>>,
                 !.responses = @ \o <<resp>>, !.logged = @ \o lines]

\* await handleAirbnbSearch(args) / await handleAirbnbListingDetails(args)
Await(slot, tool, args, lines) ==
    [slot EXCEPT !.pc = "awaiting",
                 !.call = <<[tool |-> tool, args |-> args]>>,
                 !.calls = @ \o <<[tool |-> tool, args |-> args]>>,
                 !.logged = @ \o lines]

------------------------------------------------------------------------------
\* HTTP gateway: route handlers

HealthBody == [status |-> "healthy", service |-> "airbnb-mcp-server"]

NotFoundBody == [error |-> "Not Found",
                 message |-> "The requested endpoint does not exist"]

GenericErrorBody == [error |-> "Internal Server Error",
                     message |-> "An unexpected error occurred"]

\* The terminal error handler of setupRoutes
ErrorHandler(slot, err) ==
    Done(slot, Response(500, GenericErrorBody),
         <<LogLine("error", "HTTP Server Error",
                   [error |-> err.message, path |-> slot.req.route])>>)

\* error instanceof Error ? error.message : 'Unknown error'
ErrorBody(err) == [error |-> err.message]

\* HTTPMCPServer.callTool up to its await: the tool to wait for, or the throw
CallTool(name) ==
    CASE name = "airbnb_search" -> [tool |-> "airbnb_search", threw |-> FALSE,
                                    error |-> PlainError("")]
      [] name = "airbnb_listing_details" ->
             [tool |-> "airbnb_listing_details", threw |-> FALSE,
              error |-> PlainError("")]
      [] OTHER -> [tool |-> "", threw |-> TRUE,
                   error |-> McpError(MethodNotFound, "Unknown tool")]

\* A catch of handleMCPRequest that sends no response
McpCatchSilent(slot, err) == [slot EXCEPT !.pc = "done", !.call = <<>>]

\* The catch of handleMCPRequest
McpCatch(slot, err) ==
    Done(slot,
         Response(400, [jsonrpc |-> "2.0",
                        id |-> OrNull(Get(slot.req.raw.json, "id")),
                        error |-> [code |-> IF err.isMcp THEN err.code
                                            ELSE InternalError,
                                   message |-> err.message]]),
         <<>>)

\* handleMCPRequest answering a result with id: mcpRequest.id || null
McpResultNullId(slot, result) ==
    Done(slot,
         Response(200, [jsonrpc |-> "2.0", result |-> result,
                        id |-> OrNull(Get(slot.req.raw.json, "id"))]),
         <<>>)

\* The response handleMCPRequest builds from a result
McpResult(slot, result) ==
    Done(slot,
         Response(200, WithKey([jsonrpc |-> "2.0", result |-> result], "id",
                               Get(slot.req.raw.json, "id"))),
         <<>>)

\* handleMCPRequest looking at the method before the version tag
HandleMCPRequestMethodFirst(slot) ==
    LET mcpRequest == slot.req.raw.json
        params == IF Has(mcpRequest, "params") THEN mcpRequest.params ELSE EmptyObj
        name == Get(params, "name")
        badVersion ==
            Done(slot,
                 Response(400, [jsonrpc |-> "2.0",
                                id |-> OrNull(Get(mcpRequest, "id")),
                                error |-> [code |-> InvalidRequest,
                                           message |-> "Invalid JSON-RPC version"]]),
                 <<>>)
    IN  IF Get(mcpRequest, "method") \notin {"tools/list", "tools/call"}
        THEN McpCatch(slot, McpError(MethodNotFound, "Method not found"))
        ELSE IF ~Truthy(Get(mcpRequest, "jsonrpc")) \/ Get(mcpRequest, "jsonrpc") # "2.0"
        THEN badVersion
        ELSE IF Get(mcpRequest, "method") = "tools/list"
        THEN McpResult(slot, [tools |-> AIRBNB_TOOLS])
        ELSE IF ~Truthy(name)
        THEN McpCatch(slot, McpError(InvalidParams, "Tool name is required"))
        ELSE IF CallTool(name).threw
        THEN McpCatch(slot, CallTool(name).error)
        ELSE Await(slot, CallTool(name).tool,
                   IF Has(params, "arguments") THEN params.arguments ELSE EmptyObj,
                   <<>>)

\* HTTPMCPServer.handleMCPRequest up to its first await
HandleMCPRequest(slot) ==
    LET mcpRequest == slot.req.raw.json
        params == IF Has(mcpRequest, "params") THEN mcpRequest.params ELSE EmptyObj
        name == Get(params, "name")
    IN  IF ~Truthy(Get(mcpRequest, "jsonrpc")) \/ Get(mcpRequest, "jsonrpc") # "2.0"
        THEN Done(slot,
                  Response(400, [jsonrpc |-> "2.0",
                                 id |-> OrNull(Get(mcpRequest, "id")),
                                 error |-> [code |-> InvalidRequest,
                                            message |-> "Invalid JSON-RPC version"]]),
                  <<>>)
        ELSE CASE Get(mcpRequest, "method") = "tools/list" ->
                      McpResult(slot, [tools |-> AIRBNB_TOOLS])
               [] Get(mcpRequest, "method") = "tools/call" ->
                      IF ~Truthy(name)
                      THEN McpCatch(slot, McpError(InvalidParams, "Tool name is required"))
                      ELSE IF CallTool(name).threw
                           THEN McpCatch(slot, CallTool(name).error)
                           ELSE Await(slot, CallTool(name).tool,
                                      IF Has(params, "arguments")
                                      THEN params.arguments ELSE EmptyObj,
                                      <<>>)
               [] OTHER -> McpCatch(slot, McpError(MethodNotFound, "Method not found"))

\* handleMCPRequest answering a payload with isError set as a failure
ResumeMCPRequestIsErrorFails(slot, o) ==
    IF o.kind # "ok" THEN McpCatch(slot, PlainError("Tool execution failed"))
    ELSE McpResult(slot, ToolPayload(slot.call[1].tool, slot.call[1].args, o))

\* handleMCPRequest after callTool settled
ResumeMCPRequest(slot, o) ==
    IF o.kind = "throw" THEN McpCatch(slot, o.error)
    ELSE McpResult(slot, ToolPayload(slot.call[1].tool, slot.call[1].args, o))

\* handleListTools listing the catalog without its first entry
HandleListToolsTail(slot) == Done(slot, Response(200, [tools |-> Tail(AIRBNB_TOOLS)]), <<>>)

\* HTTPMCPServer.handleListTools
HandleListTools(slot) == Done(slot, Response(200, [tools |-> AIRBNB_TOOLS]), <<>>)

\* handleCallTool without the check of the name
HandleCallToolNoNameCheck(slot) ==
    LET body == slot.req.raw.json
        name == Get(body, "name")
    IN  IF CallTool(name).threw
        THEN Done(slot, Response(400, ErrorBody(CallTool(name).error)), <<>>)
        ELSE Await(slot, CallTool(name).tool,
                   IF Has(body, "arguments") THEN body.arguments ELSE EmptyObj,
                   <<>>)

\* HTTPMCPServer.handleCallTool up to its first await
HandleCallTool(slot) ==
    LET body == slot.req.raw.json
        name == Get(body, "name")
    IN  IF ~Truthy(name)
        THEN Done(slot, Response(400, [error |-> "Tool name is required"]), <<>>)
        ELSE IF CallTool(name).threw
             THEN Done(slot, Response(400, ErrorBody(CallTool(name).error)), <<>>)
             ELSE Await(slot, CallTool(name).tool,
                        IF Has(body, "arguments") THEN body.arguments ELSE EmptyObj,
                        <<>>)

\* handleCallTool answering with the result of a search, whichever tool ran
ResumeCallToolOfSearch(slot, o) ==
    IF o.kind = "throw" THEN Done(slot, Response(400, ErrorBody(o.error)), <<>>)
    ELSE Done(slot, Response(200, ToolPayload("airbnb_search", EmptyObj, o)), <<>>)

\* handleCallTool after callTool settled
ResumeCallTool(slot, o) ==
    IF o.kind = "throw" THEN Done(slot, Response(400, ErrorBody(o.error)), <<>>)
    ELSE Done(slot, Response(200, ToolPayload(slot.call[1].tool, slot.call[1].args, o)),
              <<>>)

\* HTTPMCPServer.handleAirbnbSearchAPI up to its await
HandleAirbnbSearchAPI(slot) == Await(slot, "airbnb_search", slot.req.raw.json, <<>>)

\* The arguments handleAirbnbListingAPI builds: { id, ...req.body }
ListingParams(id, body) == Spread([x \in {"id"} |-> id], body)

\* HTTPMCPServer.handleAirbnbListingAPI up to its await
HandleAirbnbListingAPI(slot) ==
    Await(slot, "airbnb_listing_details",
          ListingParams(slot.req.pathId, slot.req.raw.json), <<>>)

\* The REST aliases calling the collaborator a second time when it threw
ResumeAirbnbAPIRetries(slot, o) ==
    IF o.kind = "throw" /\ Len(slot.calls) < 2
    THEN Await(slot, slot.call[1].tool, slot.call[1].args, <<>>)
    ELSE IF o.kind = "throw" THEN Done(slot, Response(500, ErrorBody(o.error)), <<>>)
    ELSE Done(slot, Response(200, ToolPayload(slot.call[1].tool, slot.call[1].args, o)),
              <<>>)

\* handleAirbnbSearchAPI and handleAirbnbListingAPI after the collaborator settled
ResumeAirbnbAPI(slot, o) ==
    IF o.kind = "throw" THEN Done(slot, Response(500, ErrorBody(o.error)), <<>>)
    ELSE Done(slot, Response(200, ToolPayload(slot.call[1].tool, slot.call[1].args, o)),
              <<>>)

------------------------------------------------------------------------------
\* Stdio runner: the request handlers of runStdioServer. The SDK's Server
\* calls the handler registered for the method of a request that carries an
\* id, answers with the handler's result, answers a thrown error with its code
\* (InternalError when it has none), and answers nothing to a notification.

SdkResult(slot, result, lines) ==
    Done(slot,
         Response(0, [jsonrpc |-> "2.0", id |-> Get(slot.req.raw.json, "id"),
                      result |-> result]),
         lines)

SdkError(slot, err, lines) ==
    Done(slot,
         Response(0, [jsonrpc |-> "2.0", id |-> Get(slot.req.raw.json, "id"),
                      error |-> [code |-> IF err.isMcp THEN err.code ELSE InternalError,
                                 message |-> err.message]]),
         lines)

\* A catch of the CallTool handler that answers nothing to a failure that is no
\* McpError
StdioCatchDrops(slot, err, lines) ==
    LET failed == LogLine("error", "Tool call failed", [error |-> err.message])
    IN  IF err.isMcp
        THEN SdkError(slot, err, lines \o <<failed>>)
        ELSE [slot EXCEPT !.pc = "done", !.call = <<>>,
                          !.logged = @ \o lines \o <<failed>>]

\* The catch of the CallTool handler
StdioCatch(slot, err, lines) ==
    LET failed == LogLine("error", "Tool call failed", [error |-> err.message])
    IN  IF err.isMcp
        THEN SdkError(slot, err, lines \o <<failed>>)
        ELSE SdkResult(slot, [content |-> [error |-> err.message], isError |-> TRUE],
                       lines \o <<failed>>)

\* The CallTool handler up to its await
StdioCallTool(slot) ==
    LET params == slot.req.raw.json.params
        name == Get(params, "name")
        received == LogLine("info", "Tool call received",
                            [tool |-> name, arguments |-> Get(params, "arguments")])
    IN  IF ~Truthy(name)
        THEN StdioCatch(slot, McpError(InvalidParams, "Tool name is required"), <<>>)
        ELSE IF ~Has(params, "arguments")
        THEN StdioCatch(slot, McpError(InvalidParams, "Tool arguments are required"),
                        <<>>)
        ELSE CASE name = "airbnb_search" ->
                      Await(slot, "airbnb_search", params.arguments, <<received>>)
               [] name = "airbnb_listing_details" ->
                      Await(slot, "airbnb_listing_details", params.arguments,
                            <<received>>)
               [] OTHER ->
                      StdioCatch(slot, McpError(MethodNotFound, "Unknown tool"),
                                 <<received>>)

\* The CallTool handler after the collaborator settled
ResumeStdioCallTool(slot, o) ==
    IF o.kind = "throw" THEN StdioCatch(slot, o.error, <<>>)
    ELSE SdkResult(slot, ToolPayload(slot.call[1].tool, slot.call[1].args, o),
                   <<LogLine("info", "Tool call completed",
                             [tool |-> slot.call[1].tool,
                              success |-> (o.kind # "appError")])>>)

\* The ListTools handler
StdioListTools(slot) == SdkResult(slot, [tools |-> AIRBNB_TOOLS], <<>>)

\* A message read from standard input, up to its response or the first await
StdioServer(msg) ==
    LET slot == [IdleSlot EXCEPT !.surface = "stdio",
                                 !.req = [NoReq EXCEPT !.route = "stdio",
                                                       !.raw = [ok |-> TRUE, json |-> msg]]]
    IN  IF ~Has(msg, "id") THEN [slot EXCEPT !.pc = "done"]
        ELSE CASE Get(msg, "method") = "tools/list" -> StdioListTools(slot)
               [] Get(msg, "method") = "tools/call" -> StdioCallTool(slot)
               [] OTHER -> SdkError(slot, McpError(MethodNotFound, "Method not found"),
                                    <<>>)

------------------------------------------------------------------------------
\* HTTP gateway: middleware chain and routing

ProtectedRoutes == {"POST /mcp", "POST /api/tools/list", "POST /api/tools/call",
                    "POST /api/airbnb/search", "POST /api/airbnb/listing/:id"}

\* The handler a protected route is bound to in setupRoutes
RouteHandler(slot) ==
    CASE slot.req.route = "POST /mcp" -> HandleMCPRequest(slot)
      [] slot.req.route = "POST /api/tools/list" -> HandleListTools(slot)
      [] slot.req.route = "POST /api/tools/call" -> HandleCallTool(slot)
      [] slot.req.route = "POST /api/airbnb/search" -> HandleAirbnbSearchAPI(slot)
      [] slot.req.route = "POST /api/airbnb/listing/:id" -> HandleAirbnbListingAPI(slot)

\* The request logging middleware of setupServer
RequestLog(req) == LogLine("info", "HTTP Request", [path |-> req.route])

\* What Express does with a request up to its response or the first await:
\* express.json (a body that is not JSON fails it, and the failure goes to the
\* error handler), request logging, then the route: its authentication
\* middleware and its handler, or the 404 handler.
Gateway(req, hashes) ==
    LET slot0 == [IdleSlot EXCEPT !.surface = "http", !.req = req]
        slot1 == [slot0 EXCEPT !.logged = <<RequestLog(req)>>]
        auth == AuthenticateToken(req.header, hashes)
    IN  IF ~req.raw.ok
        THEN ErrorHandler(slot0, PlainError("Unexpected token in JSON"))
        ELSE CASE req.route = "GET /health" -> Done(slot1, Response(200, HealthBody), <<>>)
               [] req.route \in ProtectedRoutes ->
                      IF auth.next
                      THEN RouteHandler([slot1 EXCEPT !.user = auth.user])
                      ELSE Done(slot1, auth.response, auth.log)
               [] OTHER -> Done(slot1, Response(404, NotFoundBody), <<>>)

\* The handler resumed when the collaborator settles with outcome o
Resume(slot, o) ==
    CASE slot.req.route = "POST /mcp" -> ResumeMCPRequest(slot, o)
      [] slot.req.route = "POST /api/tools/call" -> ResumeCallTool(slot, o)
      [] OTHER -> ResumeAirbnbAPI(slot, o)

------------------------------------------------------------------------------
\* Process lifecycle: index.ts from its first statement to the end of the
\* process, and HTTPMCPServer.start. fetchRobotsTxt is the robots-policy
\* prefetch of mcp-core: an async operation without arguments or result, which
\* can fail.

Modes == {"http", "stdio"}

\* Mode selection by MCP_MODE alone
SelectModeEnvOnly(argv, mcpMode) == IF mcpMode = "http" THEN "http" ELSE "stdio"

\* useHttpMode ? 'http' : 'stdio'
SelectMode(argv, mcpMode) ==
    IF "--http" \in argv \/ mcpMode = "http" THEN "http" ELSE "stdio"

\* A transport that was not started
OffProc == [phase |-> "off", robots |-> "none", fetches |-> 0,
            startResolved |-> FALSE, handlers |-> FALSE,
            signal |-> <<>>, exit |-> <<>>, log |-> <<>>]

\* A transport whose startup has completed
ServingProc(m) == [OffProc EXCEPT !.phase = "serving", !.robots = "ok",
                                  !.fetches = 1,
                                  !.startResolved = (m = "http"),
                                  !.handlers = (m = "stdio")]

\* The transport is chosen and goes on without awaiting fetchRobotsTxt
StartingWithoutAwait(m) ==
    [OffProc EXCEPT !.phase = IF m = "http" THEN "binding" ELSE "connecting",
                    !.robots = "pending", !.fetches = @ + 1]

\* The transport is chosen and runs up to its await of fetchRobotsTxt
Starting(m) ==
    [OffProc EXCEPT !.phase = "prefetch", !.robots = "pending", !.fetches = @ + 1,
                    !.log = <<LogLine("info",
                                      IF m = "http" THEN "Starting HTTP MCP Server"
                                      ELSE "Airbnb MCP Server starting (stdio mode)",
                                      EmptyObj)>>]

\* process.exit(code)
Exit(p, code, lines) ==
    [p EXCEPT !.phase = "exited", !.exit = <<code>>, !.log = @ \o lines]

\* The exit status of a process ended by a signal it has no handler for
KilledBy(sig) == 128 + (IF sig = "SIGINT" THEN 2 ELSE 15)

RobotsOutcomes == {"resolves", "rejects"}

RobotsError == PlainError("getaddrinfo ENOTFOUND www.airbnb.com")

\* HTTPMCPServer.start when fetchRobotsTxt settles: app.listen is called and
\* the promise of start is fulfilled, or the catch logs and rethrows and the catch of index.ts logs and exits
Start(p, outcome) ==
    LET failed == LogLine("error", "Failed to start HTTP server",
                          [error |-> RobotsError.message])
    IN  IF outcome = "rejects"
        THEN Exit([p EXCEPT !.robots = "failed"], 1, <<failed, failed>>)
        ELSE [p EXCEPT !.robots = "ok", !.phase = "binding", !.startResolved = TRUE]

\* The listener of app.listen binds and its callback runs, or it emits an
\* 'error' nothing listens for, which ends the process
Listen(p, bound) ==
    IF bound
    THEN [p EXCEPT !.phase = "serving",
                   !.log = @ \o <<LogLine("info", "HTTP MCP Server started", EmptyObj)>>]
    ELSE Exit(p, 1, <<>>)

\* runStdioServer when fetchRobotsTxt settles
RunStdioServer(p, outcome) ==
    IF outcome = "rejects"
    THEN Exit([p EXCEPT !.robots = "failed"], 1,
              <<LogLine("error", "Failed to start server",
                        [error |-> RobotsError.message])>>)
    ELSE [p EXCEPT !.robots = "ok", !.phase = "connecting"]

\* await server.connect(transport), then the handlers of SIGINT and SIGTERM
\* are installed
Connect(p, connected) ==
    IF connected
    THEN [p EXCEPT !.phase = "serving", !.handlers = TRUE,
                   !.log = @ \o <<LogLine("info", "Airbnb MCP Server running on stdio",
                                          EmptyObj)>>]
    ELSE Exit(p, 1, <<LogLine("error", "Failed to start server",
                              [error |-> "Transport already started"])>>)

\* SIGINT or SIGTERM is delivered: the handler logs and calls process.exit(0);
\* where no handler is installed the signal ends the process
OnSignal(p, sig) ==
    IF p.handlers
    THEN Exit([p EXCEPT !.signal = <<sig>>], 0,
              <<LogLine("info", "Received signal, shutting down gracefully",
                        [signal |-> sig])>>)
    ELSE Exit([p EXCEPT !.signal = <<sig>>], KilledBy(sig), <<>>)

------------------------------------------------------------------------------
\* Inputs

Opt(S) == {<<>>} \cup {<<x>> : x \in S}
Put(o, k, opt) == IF opt = <<>> THEN o ELSE Spread(o, [x \in {k} |-> opt[1]])

\* Every header a caller can send, for tokens up to one longer than an entry
AllHeaders ==
    {NoHeader, <<"Bearer">>}
    \cup {<<scheme>> \o t : scheme \in {"Bearer ", "Basic "}, t \in Strs(MaxTokLen + 1)}

\* Every value of MCP_ACCESS_TOKENS: unset, or at least one entry
AllEnvs == UNION {[1..k -> Strs(MaxTokLen)] : k \in 0..MaxEntries}

SomeEnvs == {<<>>, << <<"a", "a">> >>, << <<" ">>, <<" ", "a">> >>}

SomeHeaders == {NoHeader, <<"Basic ", "a", "a">>, <<"Bearer ">>,
                <<"Bearer ", "a">>, <<"Bearer ", "a", "a">>}

IdVals == {"n:0", "n:1", "s:", "s:x"}

ArgVals == {EmptyObj, [id |-> "n:99"], [checkin |-> "s:2026-01-01"],
            [id |-> "n:99", checkin |-> "s:2026-01-01"], [id |-> "s:42"]}

Names == {"", "airbnb_search", "airbnb_listing_details", "no_such_tool"}

ParamVals == {Put(Put(EmptyObj, "name", n), "arguments", a) :
                 n \in Opt(Names), a \in Opt(ArgVals)}

McpBodies ==
    {Put(Put(Put(Put(EmptyObj, "jsonrpc", j), "id", i), "method", m), "params", p) :
        j \in Opt({"2.0", "1.0"}), i \in Opt(IdVals),
        m \in Opt({"tools/list", "tools/call", "resources/list"}),
        p \in Opt(ParamVals)}

PathIds == {"s:42", "s:7"}

NotJson == [ok |-> FALSE, json |-> EmptyObj]
Json(o) == [ok |-> TRUE, json |-> o]

Request(route, pathId, header, raw) ==
    [route |-> route, pathId |-> pathId, header |-> header, raw |-> raw]

------------------------------------------------------------------------------
\* Actions

Conns == {"c1", "c2"}     \* HTTP connections
Stdio == "io"             \* the standard input and output of a stdio process
StdioSlots == {Stdio, "io2"}   \* the handler invocations a stdio process has room for

TypeOK ==
    /\ validTokenHashes \subseteq {Sha256(t) : t \in Strs(MaxTokLen)}
    /\ DOMAIN reqs = Conns \cup StdioSlots
    /\ \A c \in DOMAIN reqs :
          /\ reqs[c].pc \in {"idle", "awaiting", "done"}
          /\ Len(reqs[c].responses) <= 1
          /\ Len(reqs[c].calls) <= 1

\* The transports in modes have completed their startup, the others are off
Up(modes) ==
    /\ launch = [argv |-> {}, mcpMode |-> "http"]
    /\ proc = [m \in Modes |-> IF m \in modes THEN ServingProc(m) ELSE OffProc]

\* The constructor: setupServer, setupAuthentication, setupRoutes
Construct(env) ==
    /\ envTokens = env
    /\ validTokenHashes = SetupAuthentication(env).hashes
    /\ bootLog = SetupAuthentication(env).log
    /\ reqs = [c \in Conns \cup StdioSlots |-> IdleSlot]

Health(c, hdrs) ==
    /\ proc["http"].phase = "serving"
    /\ reqs[c].pc = "idle"
    /\ \E h \in hdrs, raw \in {NotJson, Json(EmptyObj)} :
          reqs' = [reqs EXCEPT ![c] =
                      Gateway(Request("GET /health", "", h, raw), validTokenHashes)]
    /\ UNCHANGED <<envTokens, validTokenHashes, bootLog, launch, proc>>

NotFound(c, hdrs) ==
    /\ proc["http"].phase = "serving"
    /\ reqs[c].pc = "idle"
    /\ \E h \in hdrs, raw \in {NotJson, Json(EmptyObj)} :
          reqs' = [reqs EXCEPT ![c] =
                      Gateway(Request("GET /mcp", "", h, raw), validTokenHashes)]
    /\ UNCHANGED <<envTokens, validTokenHashes, bootLog, launch, proc>>

PostMcp(c, hdrs, bodies) ==
    /\ proc["http"].phase = "serving"
    /\ reqs[c].pc = "idle"
    /\ \E h \in hdrs, raw \in {NotJson} \cup {Json(b) : b \in bodies} :
          reqs' = [reqs EXCEPT ![c] =
                      Gateway(Request("POST /mcp", "", h, raw), validTokenHashes)]
    /\ UNCHANGED <<envTokens, validTokenHashes, bootLog, launch, proc>>

PostToolsList(c, hdrs) ==
    /\ proc["http"].phase = "serving"
    /\ reqs[c].pc = "idle"
    /\ \E h \in hdrs, raw \in {NotJson, Json(EmptyObj)} :
          reqs' = [reqs EXCEPT ![c] =
                      Gateway(Request("POST /api/tools/list", "", h, raw),
                              validTokenHashes)]
    /\ UNCHANGED <<envTokens, validTokenHashes, bootLog, launch, proc>>

PostToolsCall(c, hdrs, bodies) ==
    /\ proc["http"].phase = "serving"
    /\ reqs[c].pc = "idle"
    /\ \E h \in hdrs, raw \in {NotJson} \cup {Json(b) : b \in bodies} :
          reqs' = [reqs EXCEPT ![c] =
                      Gateway(Request("POST /api/tools/call", "", h, raw),
                              validTokenHashes)]
    /\ UNCHANGED <<envTokens, validTokenHashes, bootLog, launch, proc>>

PostSearch(c, hdrs) ==
    /\ proc["http"].phase = "serving"
    /\ reqs[c].pc = "idle"
    /\ \E h \in hdrs, raw \in {NotJson} \cup {Json(b) : b \in ArgVals} :
          reqs' = [reqs EXCEPT ![c] =
                      Gateway(Request("POST /api/airbnb/search", "", h, raw),
                              validTokenHashes)]
    /\ UNCHANGED <<envTokens, validTokenHashes, bootLog, launch, proc>>

PostListing(c, hdrs) ==
    /\ proc["http"].phase = "serving"
    /\ reqs[c].pc = "idle"
    /\ \E h \in hdrs, id \in PathIds, raw \in {NotJson} \cup {Json(b) : b \in ArgVals} :
          reqs' = [reqs EXCEPT ![c] =
                      Gateway(Request("POST /api/airbnb/listing/:id", id, h, raw),
                              validTokenHashes)]
    /\ UNCHANGED <<envTokens, validTokenHashes, bootLog, launch, proc>>

\* The collaborator call of connection c settles and its handler runs on
ToolSettles(c) ==
    /\ proc["http"].phase = "serving"
    /\ reqs[c].pc = "awaiting"
    /\ reqs[c].surface = "http"
    /\ \E o \in ToolOutcomes :
          reqs' = [reqs EXCEPT ![c] =
                      Resume([reqs[c] EXCEPT !.settled = @ \o <<o>>], o)]
    /\ UNCHANGED <<envTokens, validTokenHashes, bootLog, launch, proc>>

\* A request message arrives on standard input
StdioRequest(s, msgs) ==
    /\ proc["stdio"].phase = "serving"
    /\ reqs[s].pc = "idle"
    /\ \E msg \in msgs : reqs' = [reqs EXCEPT ![s] = StdioServer(msg)]
    /\ UNCHANGED <<envTokens, validTokenHashes, bootLog, launch, proc>>

\* The collaborator call of the stdio handler settles and the handler runs on
StdioToolSettles(s) ==
    /\ proc["stdio"].phase = "serving"
    /\ reqs[s].pc = "awaiting"
    /\ \E o \in ToolOutcomes :
          reqs' = [reqs EXCEPT ![s] =
                      ResumeStdioCallTool([reqs[s] EXCEPT !.settled = @ \o <<o>>], o)]
    /\ UNCHANGED <<envTokens, validTokenHashes, bootLog, launch, proc>>

\* The response is on the wire; the connection takes the next request
Close(c) ==
    /\ reqs[c].pc = "done"
    /\ reqs' = [reqs EXCEPT ![c] = IdleSlot]
    /\ UNCHANGED <<envTokens, validTokenHashes, bootLog, launch, proc>>

\* index.ts runs: the transport is selected; in http mode the HTTPMCPServer is
\* constructed and start is called, otherwise runStdioServer is called
Launch ==
    /\ \A m \in Modes : proc[m].phase = "off"
    /\ LET m == SelectMode(launch.argv, launch.mcpMode)
       IN  /\ proc' = [proc EXCEPT ![m] = Starting(m)]
           /\ IF m = "http"
              THEN /\ validTokenHashes' = SetupAuthentication(envTokens).hashes
                   /\ bootLog' = SetupAuthentication(envTokens).log
              ELSE UNCHANGED <<validTokenHashes, bootLog>>
    /\ UNCHANGED <<envTokens, reqs, launch>>

\* fetchRobotsTxt settles and the code that awaited it runs on
RobotsSettles(m) ==
    /\ proc[m].phase = "prefetch"
    /\ \E o \in RobotsOutcomes :
          proc' = [proc EXCEPT ![m] = IF m = "http" THEN Start(@, o)
                                      ELSE RunStdioServer(@, o)]
    /\ UNCHANGED <<envTokens, validTokenHashes, bootLog, reqs, launch>>

\* The listener binds or fails to
ListenSettles ==
    /\ proc["http"].phase = "binding"
    /\ \E bound \in BOOLEAN : proc' = [proc EXCEPT !["http"] = Listen(@, bound)]
    /\ UNCHANGED <<envTokens, validTokenHashes, bootLog, reqs, launch>>

\* server.connect settles
ConnectSettles ==
    /\ proc["stdio"].phase = "connecting"
    /\ \E connected \in BOOLEAN :
          proc' = [proc EXCEPT !["stdio"] = Connect(@, connected)]
    /\ UNCHANGED <<envTokens, validTokenHashes, bootLog, reqs, launch>>

\* A termination signal is delivered to the running process
Signal(m) ==
    /\ proc[m].phase \in {"prefetch", "binding", "connecting", "serving"}
    /\ \E sig \in {"SIGINT", "SIGTERM"} :
          proc' = [proc EXCEPT ![m] = OnSignal(@, sig)]
    /\ UNCHANGED <<envTokens, validTokenHashes, bootLog, reqs, launch>>

\* The HTTP gateway, one request at a time, for a few token configurations
Init == Up({"http"}) /\ \E env \in SomeEnvs : Construct(env)

Next ==
    \E c \in {"c1"} :
        \/ Health(c, SomeHeaders)
        \/ NotFound(c, SomeHeaders)
        \/ PostMcp(c, SomeHeaders, McpBodies)
        \/ PostToolsList(c, SomeHeaders)
        \/ PostToolsCall(c, SomeHeaders, ParamVals)
        \/ PostSearch(c, SomeHeaders)
        \/ PostListing(c, SomeHeaders)
        \/ ToolSettles(c)
        \/ Close(c)

Spec == Init /\ [][Next]_vars

\* Authentication alone: every token configuration against every header
InitAuth == Up({"http"}) /\ \E env \in AllEnvs : Construct(env)

NextAuth ==
    \E c \in {"c1"} :
        \/ PostToolsList(c, AllHeaders)
        \/ Close(c)

SpecAuth == InitAuth /\ [][NextAuth]_vars

\* The three surfaces of a tool call side by side: the stdio runner, POST /mcp
\* and POST /api/tools/call, the HTTP caller holding a valid token.
GoodHeader == <<"Bearer ", "a", "a">>

SurfaceParams == {Put(Put(EmptyObj, "name", n), "arguments", a) :
                     n \in Opt(Names), a \in Opt({EmptyObj, [id |-> "n:99"]})}

\* JSON-RPC requests the SDK's schema lets through to a handler
SurfaceMsgs ==
    {[jsonrpc |-> "2.0", id |-> i, method |-> m, params |-> p] :
        i \in {"n:0", "s:x"}, m \in {"tools/list", "tools/call", "resources/list"},
        p \in SurfaceParams}

InitSurfaces == Up(Modes) /\ Construct(<< <<"a", "a">> >>)

NextSurfaces ==
    \/ StdioRequest(Stdio, SurfaceMsgs)
    \/ StdioToolSettles(Stdio)
    \/ PostMcp("c1", {GoodHeader}, SurfaceMsgs)
    \/ PostToolsCall("c1", {GoodHeader}, SurfaceParams)
    \/ ToolSettles("c1")
    \/ Close("c1")
    \/ Close(Stdio)

SpecSurfaces == InitSurfaces /\ [][NextSurfaces]_vars

\* A process from its launch on, for every MCP_MODE and command line
McpModes == {Undefined, "http", "stdio", "HTTP"}

Launches == [argv : SUBSET {"--http", "--stdio"}, mcpMode : McpModes]

BootMsgs == {[jsonrpc |-> "2.0", id |-> "n:0", method |-> "tools/list"]}

InitBoot ==
    /\ envTokens = << <<"a", "a">> >>
    /\ validTokenHashes = {}
    /\ bootLog = <<>>
    /\ reqs = [c \in Conns \cup StdioSlots |-> IdleSlot]
    /\ launch \in Launches
    /\ proc = [m \in Modes |-> OffProc]

NextBoot ==
    \/ Launch
    \/ \E m \in Modes : RobotsSettles(m)
    \/ ListenSettles
    \/ ConnectSettles
    \/ \E m \in Modes : Signal(m)
    \/ Health("c1", {NoHeader})
    \/ PostToolsList("c1", {NoHeader, GoodHeader})
    \/ StdioRequest(Stdio, BootMsgs)
    \/ Close("c1")
    \/ Close(Stdio)

SpecBoot == InitBoot /\ [][NextBoot]_vars

\* The stdio runner from its launch on, with room for two handler invocations
StdioMsgs ==
    {Put([jsonrpc |-> "2.0", method |-> m, params |-> p], "id", i) :
        i \in Opt({"n:1", "s:x"}), m \in {"tools/list", "tools/call"},
        p \in {[name |-> "airbnb_search", arguments |-> EmptyObj],
                [name |-> "no_such_tool", arguments |-> EmptyObj]}}

InitStdio ==
    /\ envTokens = <<>>
    /\ validTokenHashes = {}
    /\ bootLog = <<>>
    /\ reqs = [c \in Conns \cup StdioSlots |-> IdleSlot]
    /\ launch \in [argv : {{}, {"--stdio"}}, mcpMode : {Undefined}]
    /\ proc = [m \in Modes |-> OffProc]

NextStdio ==
    \/ Launch
    \/ RobotsSettles("stdio")
    \/ ConnectSettles
    \/ Signal("stdio")
    \/ \E s \in StdioSlots :
          \/ StdioRequest(s, StdioMsgs)
          \/ StdioToolSettles(s)
          \/ Close(s)

SpecStdio == InitStdio /\ [][NextStdio]_vars

\* The same, where a collaborator call that is awaited by a running process
\* terminates
SpecStdioLive ==
    SpecStdio /\ \A s \in StdioSlots : WF_vars(StdioToolSettles(s))

\* Two connections of the gateway at once: tool calls naming different tools,
\* tools/list on both of its routes, and requests that fail
ConcHeaders == {GoodHeader, <<"Bearer ", "a">>}

ConcParams == {[name |-> "airbnb_search", arguments |-> [checkin |-> "s:2026-01-01"]],
               [name |-> "airbnb_listing_details", arguments |-> [id |-> "n:99"]]}

ConcMsgs == {[jsonrpc |-> "2.0", id |-> "n:1", method |-> "tools/list"],
             [jsonrpc |-> "2.0", id |-> "n:1", method |-> "resources/list"]}

InitConcurrent == Up({"http"}) /\ Construct(<< <<"a", "a">> >>)

NextConcurrent ==
    \E c \in Conns :
        \/ PostToolsCall(c, ConcHeaders, ConcParams)
        \/ PostMcp(c, ConcHeaders, ConcMsgs)
        \/ PostToolsList(c, ConcHeaders)
        \/ ToolSettles(c)
        \/ Close(c)

SpecConcurrent == InitConcurrent /\ [][NextConcurrent]_vars

\* Every surface that calls a collaborator: the stdio handler, POST /mcp, POST
\* /api/tools/call and the two REST aliases, the HTTP caller holding a valid
\* token
NextCalls ==
    \/ StdioRequest(Stdio, SurfaceMsgs)
    \/ StdioToolSettles(Stdio)
    \/ PostMcp("c1", {GoodHeader}, SurfaceMsgs)
    \/ PostToolsCall("c1", {GoodHeader}, SurfaceParams)
    \/ PostSearch("c1", {GoodHeader})
    \/ PostListing("c1", {GoodHeader})
    \/ ToolSettles("c1")
    \/ Close("c1")
    \/ Close(Stdio)

SpecCalls == InitSurfaces /\ [][NextCalls]_vars

\* The search alias on c1 beside POST /api/tools/call on c2, the caller holding
\* a valid token
AliasParams == {[name |-> "airbnb_search", arguments |-> b] : b \in ArgVals}

NextAlias ==
    \/ PostSearch("c1", {GoodHeader})
    \/ PostToolsCall("c2", {GoodHeader}, AliasParams)
    \/ \E c \in Conns : ToolSettles(c) \/ Close(c)

SpecAlias == InitConcurrent /\ [][NextAlias]_vars

\* The HTTP gateway of Spec in a process that can be ended by a signal, where a
\* collaborator call that is awaited by a running process returns or throws
NextLive == Next \/ Signal("http")

SpecLive == Init /\ [][NextLive]_vars /\ WF_vars(ToolSettles("c1"))

------------------------------------------------------------------------------
\* Properties

\* The entries of MCP_ACCESS_TOKENS that are not blank, as written and trimmed
EntriesAsWritten(env) == {env[i] : i \in {j \in 1..Len(env) : Trim(env[j]) # <<>>}}
EntriesTrimmed(env) == {Trim(e) : e \in EntriesAsWritten(env)}

ValidBearer(h, env) == StartsWithBearer(h) /\ Tail(h) \in EntriesTrimmed(env)

\* The one response of a request that is done
Reply(slot) == slot.responses[1]

Answered(slot) == slot.pc = "done" /\ Len(slot.responses) = 1

\* C1, as amended: for every value of MCP_ACCESS_TOKENS, a request to a
\* protected route passes authenticateToken exactly when its header is
\* `Bearer <t>` with <t> the trimmed form of an entry that is not blank; every
\* other header (none, another scheme, the empty token, a prefix or substring
\* of such a token, such a token with characters appended, an entry with its
\* surrounding blanks) is answered 401.
C1_AcceptsExactlyTrimmedEntries ==
    \A c \in Conns :
        (reqs[c].pc = "done" /\ reqs[c].req.route = "POST /api/tools/list"
            /\ reqs[c].req.raw.ok)
        => /\ Answered(reqs[c])
           /\ IF ValidBearer(reqs[c].req.header, envTokens)
              THEN Reply(reqs[c]).status = 200 /\ reqs[c].user # <<>>
              ELSE Reply(reqs[c]).status = 401 /\ reqs[c].user = <<>>

\* C1 witness: a token is accepted that was configured with blanks around it
C1_Witness ==
    \E c \in Conns :
        /\ Answered(reqs[c]) /\ Reply(reqs[c]).status = 200
        /\ reqs[c].req.route = "POST /api/tools/list"
        /\ Tail(reqs[c].req.header) \notin EntriesAsWritten(envTokens)

\* C1 as stated: the header `Bearer <t>` is accepted exactly when <t> is one
\* of the (non-blank) entries of MCP_ACCESS_TOKENS
C1_AcceptsExactlyEntriesAsWritten ==
    \A c \in Conns :
        (reqs[c].pc = "done" /\ reqs[c].req.route = "POST /api/tools/list"
            /\ reqs[c].req.raw.ok)
        => (Reply(reqs[c]).status = 200
               <=> (StartsWithBearer(reqs[c].req.header)
                      /\ Tail(reqs[c].req.header) \in EntriesAsWritten(envTokens)))

\* C2: no collaborator is called for an HTTP request unless authenticateToken
\* called next() for it, which it does only for a valid bearer token
C2_NoToolCallWithoutValidToken ==
    \A c \in Conns :
        reqs[c].calls # <<>>
        => /\ reqs[c].req.route \in ProtectedRoutes
           /\ ValidBearer(reqs[c].req.header, envTokens)
           /\ reqs[c].user = Sha256(Tail(reqs[c].req.header))

\* C2 witness: a collaborator is being called for a request of a REST alias
C2_Witness ==
    \E c \in Conns :
        /\ reqs[c].pc = "awaiting"
        /\ reqs[c].req.route = "POST /api/airbnb/search"
        /\ reqs[c].calls # <<>>

\* C3: a request to a protected route without a valid bearer token is
\* answered 401, whatever its body
C3_UnauthenticatedIs401 ==
    \A c \in Conns :
        (reqs[c].pc = "done" /\ reqs[c].req.route \in ProtectedRoutes
            /\ ~ValidBearer(reqs[c].req.header, envTokens))
        => Answered(reqs[c]) /\ Reply(reqs[c]).status = 401

\* C4: the listing alias calls the details tool with the id of the path, and
\* with every other field of the body unchanged
C4_PathIdWins ==
    \A c \in Conns :
        (reqs[c].req.route = "POST /api/airbnb/listing/:id" /\ reqs[c].calls # <<>>)
        => LET args == reqs[c].calls[1].args
               body == reqs[c].req.raw.json
           IN  /\ reqs[c].calls[1].tool = "airbnb_listing_details"
               /\ Get(args, "id") = reqs[c].req.pathId
               /\ \A k \in DOMAIN body \ {"id"} : Get(args, k) = body[k]

\* The result payload a caller reads out of a response, <<>> when it holds none
ResultOf(slot) ==
    LET body == Reply(slot).body
    IN  IF slot.req.route = "POST /api/tools/call"
        THEN (IF Has(body, "isError") THEN <<body>> ELSE <<>>)
        ELSE (IF Has(body, "result") THEN <<body.result>> ELSE <<>>)

\* C5: on the three surfaces, a collaborator failure that is no McpError comes
\* back as a result with isError set, not as an error or a status other than 200
C5_FailureIsAnIsErrorResult ==
    \A c \in {"c1", Stdio} :
        (reqs[c].pc = "done" /\ reqs[c].settled # <<>>
            /\ reqs[c].settled[1].kind = "throw" /\ ~reqs[c].settled[1].error.isMcp)
        => /\ Answered(reqs[c])
           /\ Reply(reqs[c]).status \in {0, 200}
           /\ ~Has(Reply(reqs[c]).body, "error")
           /\ ResultOf(reqs[c]) # <<>>
           /\ ResultOf(reqs[c])[1].isError

\* C6: a response with status 500 carries the fixed body, whatever was thrown
C6_Status500IsGeneric ==
    \A c \in Conns :
        \A i \in 1..Len(reqs[c].responses) :
            reqs[c].responses[i].status = 500
            => reqs[c].responses[i].body = GenericErrorBody

\* What a JSON-RPC surface made of a request before any collaborator settled:
\* a call of a collaborator with arguments, an error code, or a result
DispatchOf(slot) ==
    IF slot.calls # <<>>
    THEN [kind |-> "call", tool |-> slot.calls[1].tool, args |-> slot.calls[1].args,
          code |-> 0]
    ELSE IF Has(Reply(slot).body, "error")
    THEN [kind |-> "error", tool |-> "", args |-> EmptyObj,
          code |-> Reply(slot).body.error.code]
    ELSE [kind |-> "result", tool |-> "", args |-> EmptyObj, code |-> 0]

\* C7: the stdio handler and POST /mcp make the same of the same request
C7_SameDispatch ==
    (/\ reqs[Stdio].pc # "idle" /\ reqs["c1"].pc # "idle"
     /\ reqs["c1"].req.route = "POST /mcp"
     /\ reqs["c1"].req.raw = reqs[Stdio].req.raw)
    => DispatchOf(reqs[Stdio]) = DispatchOf(reqs["c1"])

\* C8: a response of handleMCPRequest carries the id of its request, and none
\* when the request had none
C8_IdEchoedVerbatim ==
    \A c \in Conns :
        (reqs[c].pc = "done" /\ reqs[c].req.route = "POST /mcp" /\ reqs[c].user # <<>>)
        => Get(Reply(reqs[c]).body, "id") = Get(reqs[c].req.raw.json, "id")

\* C9: an authenticated tools/list on POST /mcp is answered 200 with the id of
\* the request and with the catalog AIRBNB_TOOLS, entry by entry in its order,
\* as result.tools; POST /api/tools/list answers the same sequence as tools
C9_ToolsListIsTheCatalog ==
    \A c \in Conns :
        (reqs[c].pc = "done" /\ reqs[c].req.raw.ok
            /\ ValidBearer(reqs[c].req.header, envTokens))
        => /\ (reqs[c].req.route = "POST /mcp"
                 /\ Get(reqs[c].req.raw.json, "jsonrpc") = "2.0"
                 /\ Get(reqs[c].req.raw.json, "method") = "tools/list")
              => /\ Answered(reqs[c])
                 /\ Reply(reqs[c]).status = 200
                 /\ Get(Reply(reqs[c]).body, "id") = Get(reqs[c].req.raw.json, "id")
                 /\ ~Has(Reply(reqs[c]).body, "error")
                 /\ Has(Reply(reqs[c]).body, "result")
                 /\ Len(Reply(reqs[c]).body.result.tools) = Len(AIRBNB_TOOLS)
                 /\ Reply(reqs[c]).body.result.tools = AIRBNB_TOOLS
           /\ reqs[c].req.route = "POST /api/tools/list"
              => /\ Answered(reqs[c])
                 /\ Reply(reqs[c]).status = 200
                 /\ Reply(reqs[c]).body = [tools |-> AIRBNB_TOOLS]

\* C9 witness: tools/list with the id 0 has been answered
C9_Witness ==
    \E c \in Conns :
        /\ Answered(reqs[c]) /\ Reply(reqs[c]).status = 200
        /\ reqs[c].req.route = "POST /mcp"
        /\ Get(reqs[c].req.raw.json, "method") = "tools/list"
        /\ Get(reqs[c].req.raw.json, "id") = "n:0"

CatalogNames == {AIRBNB_TOOLS[i].name : i \in 1..Len(AIRBNB_TOOLS)}

\* C10: tools/call naming a tool that is not in the catalog is answered on
\* stdio and on POST /mcp with the error MethodNotFound, on /mcp with status
\* 400, and no collaborator is called
C10_UnknownToolIsMethodNotFound ==
    \A c \in {"c1", Stdio} :
        LET msg == reqs[c].req.raw.json
        IN  (/\ reqs[c].pc # "idle"
             /\ reqs[c].req.route \in {"POST /mcp", "stdio"}
             /\ Get(msg, "method") = "tools/call"
             /\ Truthy(Get(msg.params, "name"))
             /\ Get(msg.params, "name") \notin CatalogNames)
            => /\ Answered(reqs[c])
               /\ reqs[c].calls = <<>>
               /\ Has(Reply(reqs[c]).body, "error")
               /\ Reply(reqs[c]).body.error.code = MethodNotFound
               /\ (reqs[c].surface = "http" => Reply(reqs[c]).status = 400)

\* C11: an authenticated POST /mcp ends with status 200 and a result or with
\* status 400 and a JSON-RPC error, whatever its body, and never with 500
C11_McpEndsIn200Or400 ==
    \A c \in Conns :
        (reqs[c].pc = "done" /\ reqs[c].req.route = "POST /mcp"
            /\ ValidBearer(reqs[c].req.header, envTokens))
        => /\ Answered(reqs[c])
           /\ \/ /\ Reply(reqs[c]).status = 200
                 /\ Has(Reply(reqs[c]).body, "result")
              \/ /\ Reply(reqs[c]).status = 400
                 /\ Has(Reply(reqs[c]).body, "jsonrpc")
                 /\ Has(Reply(reqs[c]).body, "error")

\* C12: when the collaborator returned a payload with isError set, POST
\* /api/tools/call and POST /mcp answer 200 with that payload, on /mcp as the
\* result and with no error member
C12_IsErrorPayloadIs200 ==
    \A c \in Conns :
        (/\ reqs[c].pc = "done"
         /\ reqs[c].req.route \in {"POST /mcp", "POST /api/tools/call"}
         /\ reqs[c].settled # <<>>
         /\ reqs[c].settled[1].kind = "appError")
        => /\ Answered(reqs[c])
           /\ Reply(reqs[c]).status = 200
           /\ ~Has(Reply(reqs[c]).body, "error")
           /\ ResultOf(reqs[c])
                 = <<ToolPayload(reqs[c].calls[1].tool, reqs[c].calls[1].args,
                                 reqs[c].settled[1])>>
           /\ ResultOf(reqs[c])[1].isError

\* C12 witness: POST /mcp has answered a tools/call whose tool reported an error
C12_Witness ==
    \E c \in Conns :
        /\ Answered(reqs[c])
        /\ reqs[c].req.route = "POST /mcp"
        /\ reqs[c].settled # <<>>
        /\ reqs[c].settled[1].kind = "appError"
        /\ Reply(reqs[c]).body.result.isError

\* C13: an authenticated POST /api/tools/call whose body has no name is
\* answered 400 with the message "Tool name is required", and no collaborator
\* is called for it
C13_MissingNameIs400 ==
    \A c \in Conns :
        (/\ reqs[c].pc # "idle"
         /\ reqs[c].req.route = "POST /api/tools/call"
         /\ reqs[c].req.raw.ok
         /\ ValidBearer(reqs[c].req.header, envTokens)
         /\ ~Has(reqs[c].req.raw.json, "name"))
        => /\ Answered(reqs[c])
           /\ Reply(reqs[c]).status = 400
           /\ Reply(reqs[c]).body = [error |-> "Tool name is required"]
           /\ reqs[c].calls = <<>>

\* C13 witness: the body {} has been answered on POST /api/tools/call
C13_Witness ==
    \E c \in Conns :
        /\ Answered(reqs[c])
        /\ reqs[c].req.route = "POST /api/tools/call"
        /\ reqs[c].req.raw = Json(EmptyObj)
        /\ reqs[c].user # <<>>
        /\ Reply(reqs[c]).status = 400

\* C14: GET /health is answered 200 for every request, whatever its
\* Authorization header and whatever the token set, and authenticateToken is
\* not run for it
C14_HealthIsAlways200 ==
    \A c \in Conns :
        (reqs[c].pc = "done" /\ reqs[c].req.route = "GET /health")
        => /\ Answered(reqs[c])
           /\ Reply(reqs[c]).status = 200
           /\ reqs[c].user = <<>>

\* C15: when fetchRobotsTxt fails at the startup of the HTTP gateway, the
\* process does not exit because of it: app.listen is called and the listener
\* goes on to bind
C15_PrefetchFailureIsNotFatal ==
    proc["http"].robots = "failed"
    => /\ proc["http"].phase \in {"binding", "serving"}
       /\ proc["http"].exit = <<>>

\* C16: when SIGINT or SIGTERM arrives while the stdio runner is processing a
\* request, the process stops only after the response of that request was
\* written: it never ends on a signal with a request still awaiting its tool
C16_InFlightRequestIsDrained ==
    (proc["stdio"].phase = "exited" /\ proc["stdio"].signal # <<>>)
    => \A s \in StdioSlots : reqs[s].pc # "awaiting"

\* C17: a stdio process that received SIGINT or SIGTERM, in whatever state
\* after its start, ends with exit status 0
C17_SignalExitsWithStatus0 ==
    proc["stdio"].signal # <<>> => proc["stdio"].exit = <<0>>

\* C18: on stdio at most one tool invocation is in flight at any time
C18_OneToolInvocationAtATime ==
    Cardinality({s \in StdioSlots : reqs[s].pc = "awaiting"}) <= 1

\* C19: on stdio a request with an id gets exactly one response, a result or
\* an error carrying that id, once its handling ended, and it does end when
\* the collaborator call it awaits terminates (which it does in a process that
\* keeps running); a request without an id calls no tool and gets no response
C19_EveryRequestAnsweredOnce ==
    /\ [](\A s \in StdioSlots :
            LET msg == reqs[s].req.raw.json
                body == Reply(reqs[s]).body
            IN  /\ Len(reqs[s].responses) <= 1
                /\ (reqs[s].pc # "idle" /\ ~Has(msg, "id"))
                   => reqs[s].pc = "done" /\ reqs[s].responses = <<>>
                                         /\ reqs[s].calls = <<>>
                /\ (reqs[s].pc = "done" /\ Has(msg, "id"))
                   => /\ Len(reqs[s].responses) = 1
                      /\ Get(body, "id") = msg.id
                      /\ Has(body, "result") # Has(body, "error"))
    /\ \A s \in StdioSlots :
          (reqs[s].pc = "awaiting")
          ~> (Answered(reqs[s]) \/ proc["stdio"].phase = "exited")

\* C19 witness: one request was answered after its tool threw, and a
\* notification was taken and left without a response
C19_Witness ==
    /\ Answered(reqs[Stdio])
    /\ reqs[Stdio].settled # <<>>
    /\ reqs[Stdio].settled[1].kind = "throw"
    /\ Get(Reply(reqs[Stdio]).body, "id") = "s:x"
    /\ reqs["io2"].pc = "done"
    /\ ~Has(reqs["io2"].req.raw.json, "id")
    /\ reqs["io2"].responses = <<>>

\* The transports the process has started
Started == {m \in Modes : proc[m].phase # "off"}

\* C20, as amended: the HTTP gateway is started exactly when the command line
\* holds --http or MCP_MODE is http, the stdio runner otherwise, never both,
\* and a request is only ever taken by the transport that was started
C20_ModeByFlagOrEnv ==
    /\ Cardinality(Started) <= 1
    /\ \A m \in Started :
          m = "http" <=> ("--http" \in launch.argv \/ launch.mcpMode = "http")
    /\ \A c \in Conns : reqs[c].pc # "idle" => Started = {"http"}
    /\ \A s \in StdioSlots : reqs[s].pc # "idle" => Started = {"stdio"}

\* C20 witness: the gateway is serving in a process started with --http and
\* without MCP_MODE
C20_Witness ==
    /\ proc["http"].phase = "serving"
    /\ "--http" \in launch.argv
    /\ launch.mcpMode = Undefined
    /\ Answered(reqs["c1"])

\* C20 as stated: the HTTP gateway is started exactly when MCP_MODE is http,
\* whatever the command line
C20_ModeByEnvOnly ==
    \A m \in Started : m = "http" <=> launch.mcpMode = "http"

\* C21: a process that ended at its startup, in either mode, logged the
\* failure as an error and exited with status 1, and in http mode start had
\* not reported success
C21_StartupFailureIsFatal ==
    \A m \in Modes :
        (proc[m].phase = "exited" /\ proc[m].signal = <<>>)
        => /\ proc[m].exit = <<1>>
           /\ proc[m].log[Len(proc[m].log)].level = "error"
           /\ ~proc[m].startResolved

\* C22: whenever the digest set built at startup is empty, a warning was
\* logged by the token loading, and every request to a protected route is
\* answered 401, whatever its Authorization header
C22_EmptyDigestSetWarnsAndRejects ==
    validTokenHashes = {}
    => /\ \E i \in 1..Len(bootLog) : bootLog[i].level = "warn"
       /\ \A c \in Conns :
             (reqs[c].pc = "done" /\ reqs[c].req.route \in ProtectedRoutes)
             => Answered(reqs[c]) /\ Reply(reqs[c]).status = 401

\* C23: a log line of the token loading, of the request logging or of the
\* authentication holds no field but the path and a token hash, and a token
\* hash in it is the 8-character prefix of the digest of a configured or
\* presented token: never such a token itself, the header or a whole digest
C23_NoPlaintextInLogs ==
    \A c \in Conns :
        LET lines == {bootLog[i] : i \in 1..Len(bootLog)}
                     \cup {reqs[c].logged[i] : i \in 1..Len(reqs[c].logged)}
            presented == IF reqs[c].req.header = NoHeader THEN {}
                         ELSE {reqs[c].req.header, Tail(reqs[c].req.header)}
            plain == {envTokens[i] : i \in 1..Len(envTokens)}
                     \cup {Trim(envTokens[i]) : i \in 1..Len(envTokens)}
                     \cup presented
        IN  \A line \in lines :
                /\ DOMAIN line.data \subseteq {"tokenHash", "path", "error"}
                /\ "tokenHash" \in DOMAIN line.data
                   => /\ line.data.tokenHash \notin plain
                      /\ line.data.tokenHash \notin {Sha256(t) : t \in plain}
                      /\ \E t \in plain : line.data.tokenHash = HashPrefix(Sha256(t))

\* C23 witness: a token was loaded at startup and a request presenting another
\* one was rejected, each leaving a log line with a token hash
C23_Witness ==
    \E c \in Conns :
        /\ \E i \in 1..Len(bootLog) : "tokenHash" \in DOMAIN bootLog[i].data
        /\ Answered(reqs[c]) /\ Reply(reqs[c]).status = 401
        /\ \E i \in 1..Len(reqs[c].logged) :
              /\ "tokenHash" \in DOMAIN reqs[c].logged[i].data
              /\ reqs[c].logged[i].data.tokenHash
                    = HashPrefix(Sha256(Tail(reqs[c].req.header)))
        /\ Len(Tail(reqs[c].req.header)) > 0

\* C24: in every state after construction validTokenHashes is the set of the
\* digests of the trimmed entries of MCP_ACCESS_TOKENS that are not blank, so
\* no request changes it; it holds no plaintext token, and the identity a
\* request carries after authentication is the digest of its token, a member
\* of the set, not the token
C24_DigestSetIsImmutable ==
    /\ validTokenHashes = {Sha256(t) : t \in EntriesTrimmed(envTokens)}
    /\ validTokenHashes \cap Strs(MaxTokLen + 1) = {}
    /\ \A c \in Conns :
          reqs[c].user # <<>>
          => /\ reqs[c].user \in validTokenHashes
             /\ reqs[c].user = Sha256(Tail(reqs[c].req.header))
             /\ reqs[c].user # Tail(reqs[c].req.header)

\* C24 witness: of two configured entries one is blank; a request presenting
\* the other was authenticated and answered
C24_Witness ==
    \E c \in Conns :
        /\ Len(envTokens) = 2
        /\ Cardinality(validTokenHashes) = 1
        /\ Answered(reqs[c])
        /\ reqs[c].user \in validTokenHashes

\* C25: with two POST /api/tools/call requests in flight at once, the
\* collaborator of each is the tool its own body names, called with the
\* arguments of its own body, and its response is made of the outcome of its
\* own invocation: the payload of that tool for those arguments, or the
\* message of the error it threw
C25_NoCrossContamination ==
    \A c \in Conns :
        (reqs[c].req.route = "POST /api/tools/call" /\ reqs[c].calls # <<>>)
        => LET body == reqs[c].req.raw.json
           IN  /\ reqs[c].calls = <<[tool |-> body.name, args |-> body.arguments]>>
               /\ reqs[c].pc = "done"
                  => /\ Answered(reqs[c])
                     /\ Len(reqs[c].settled) = 1
                     /\ IF reqs[c].settled[1].kind = "throw"
                        THEN Reply(reqs[c]) =
                               Response(400, [error |-> reqs[c].settled[1].error.message])
                        ELSE Reply(reqs[c]) =
                               Response(200, ToolPayload(body.name, body.arguments,
                                                         reqs[c].settled[1]))

\* C25 witness: the search of c1 and the listing details of c2 were in flight
\* together; c2 was answered with an isError payload while c1 still waits
C25_Witness ==
    /\ reqs["c1"].pc = "awaiting"
    /\ reqs["c1"].calls[1].tool = "airbnb_search"
    /\ Answered(reqs["c2"])
    /\ reqs["c2"].calls # <<>>
    /\ reqs["c2"].calls[1].tool = "airbnb_listing_details"
    /\ Reply(reqs["c2"]).status = 200
    /\ Reply(reqs["c2"]).body.isError

\* An authenticated tools/list call that has been answered
IsListCall(slot) ==
    /\ Answered(slot) /\ slot.user # <<>>
    /\ \/ slot.req.route = "POST /api/tools/list"
       \/ /\ slot.req.route = "POST /mcp"
          /\ Get(slot.req.raw.json, "jsonrpc") = "2.0"
          /\ Get(slot.req.raw.json, "method") = "tools/list"

\* The catalog a tools/list response carries
CatalogOf(slot) ==
    IF slot.req.route = "POST /mcp" THEN Reply(slot).body.result.tools
    ELSE Reply(slot).body.tools

ErrorCodeOf(slot) ==
    IF Answered(slot) /\ Has(Reply(slot).body, "error") /\ Reply(slot).status = 400
    THEN Reply(slot).body.error.code ELSE 0

\* C27: an authenticated POST /mcp whose body parsed is classified by the
\* first check that fails: a version tag other than "2.0" gives
\* InvalidRequest whatever the method; else a method other than tools/list
\* and tools/call gives MethodNotFound; else tools/call without a name gives
\* InvalidParams; each with status 400 and without calling a collaborator
C27_FirstFailingCheck ==
    \A c \in Conns :
        (/\ reqs[c].pc # "idle" /\ reqs[c].req.route = "POST /mcp"
         /\ reqs[c].req.raw.ok
         /\ ValidBearer(reqs[c].req.header, envTokens))
        => LET msg == reqs[c].req.raw.json
               name == IF Has(msg, "params") THEN Get(msg.params, "name") ELSE Undefined
               expected ==
                   IF Get(msg, "jsonrpc") # "2.0" THEN InvalidRequest
                   ELSE IF Get(msg, "method") \notin {"tools/list", "tools/call"}
                   THEN MethodNotFound
                   ELSE IF Get(msg, "method") = "tools/call"
                           /\ name \in {Undefined, Null, ""}
                   THEN InvalidParams
                   ELSE 0
           IN  expected # 0
               => ErrorCodeOf(reqs[c]) = expected /\ reqs[c].calls = <<>>

\* C27 witness: a request with the version tag "1.0", an unknown method and
\* no params was answered InvalidRequest
C27_Witness ==
    \E c \in Conns :
        /\ reqs[c].req.route = "POST /mcp"
        /\ Get(reqs[c].req.raw.json, "jsonrpc") = "1.0"
        /\ Get(reqs[c].req.raw.json, "method") = "resources/list"
        /\ ~Has(reqs[c].req.raw.json, "params")
        /\ ErrorCodeOf(reqs[c]) = InvalidRequest

\* C28: the code of every JSON-RPC error POST /mcp answers is one of
\* ParseError, InvalidRequest, MethodNotFound, InvalidParams, InternalError
C28_ErrorCodesAreClosed ==
    \A c \in Conns :
        (/\ Answered(reqs[c]) /\ reqs[c].req.route = "POST /mcp"
         /\ Has(Reply(reqs[c]).body, "jsonrpc")
         /\ Has(Reply(reqs[c]).body, "error"))
        => Reply(reqs[c]).body.error.code
             \in {ParseError, InvalidRequest, MethodNotFound, InvalidParams,
                  InternalError}

\* C29: in a process fetchRobotsTxt is called once, by the transport that was
\* started, and that transport calls app.listen or server.connect, and takes
\* a request, only after the awaited prefetch has returned
C29_PrefetchOnceBeforeServing ==
    /\ proc["http"].fetches + proc["stdio"].fetches <= 1
    /\ \A m \in Modes :
          /\ proc[m].phase # "off" => proc[m].fetches = 1
          /\ proc[m].phase \in {"binding", "connecting", "serving"}
             => proc[m].robots = "ok"
    /\ \A c \in Conns : reqs[c].pc # "idle" => proc["http"].robots = "ok"
    /\ \A s \in StdioSlots : reqs[s].pc # "idle" => proc["stdio"].robots = "ok"

\* C29 witness: the stdio runner answered a request after its one prefetch
C29_Witness ==
    /\ proc["stdio"].phase = "serving"
    /\ proc["stdio"].fetches = 1
    /\ Answered(reqs[Stdio])

\* C30: on every surface a request causes at most one collaborator
\* invocation: none is started after an outcome arrived, whether the tool
\* threw, returned an isError payload or succeeded
C30_NoRetry ==
    \A c \in Conns \cup StdioSlots :
        /\ Len(reqs[c].calls) <= 1
        /\ Len(reqs[c].settled) <= Len(reqs[c].calls)
        /\ reqs[c].settled # <<>>
           => /\ reqs[c].pc = "done"
              /\ reqs[c].call = <<>>
              /\ Answered(reqs[c])

\* C30 witness: the search alias was answered 500 after its one invocation
\* threw
C30_Witness ==
    /\ Answered(reqs["c1"])
    /\ reqs["c1"].req.route = "POST /api/airbnb/search"
    /\ Len(reqs["c1"].calls) = 1
    /\ reqs["c1"].settled[1].kind = "throw"
    /\ Reply(reqs["c1"]).status = 500

\* C31: POST /api/airbnb/search with the body B and POST /api/tools/call with
\* {name: "airbnb_search", arguments: B} call the search tool with the same
\* arguments, and for the same outcome of the tool (a payload, a payload with
\* isError, a thrown failure) answer the same status and the same body
C31_SearchAliasIsToolsCall ==
    (/\ reqs["c1"].pc # "idle" /\ reqs["c2"].pc # "idle"
     /\ reqs["c1"].req.route = "POST /api/airbnb/search"
     /\ reqs["c2"].req.route = "POST /api/tools/call"
     /\ reqs["c1"].req.raw.ok /\ reqs["c2"].req.raw.ok
     /\ reqs["c2"].req.raw.json.arguments = reqs["c1"].req.raw.json)
    => /\ reqs["c1"].calls = reqs["c2"].calls
       /\ (/\ reqs["c1"].pc = "done" /\ reqs["c2"].pc = "done"
           /\ reqs["c1"].settled = reqs["c2"].settled)
          => reqs["c1"].responses = reqs["c2"].responses

\* C32: an HTTP request is answered exactly once: no connection ever holds
\* two responses, a request whose handling ended holds one, on every path
\* (body that does not parse, /health, 404, rejection by authenticateToken,
\* early return, result, catch), and a request that awaits its collaborator
\* is answered once the call returns or throws, which it does in a process
\* that keeps running
C32_AnsweredExactlyOnce ==
    /\ [](\A c \in Conns :
            /\ Len(reqs[c].responses) <= 1
            /\ reqs[c].pc = "done" => Len(reqs[c].responses) = 1
            /\ reqs[c].pc = "awaiting" => reqs[c].responses = <<>>)
    /\ \A c \in {"c1"} :
          (reqs[c].pc = "awaiting")
          ~> (Answered(reqs[c]) \/ proc["http"].phase = "exited")

\* C32 witness: POST /mcp answered its one response, with status 400, after
\* the collaborator threw
C32_Witness ==
    /\ Answered(reqs["c1"])
    /\ reqs["c1"].req.route = "POST /mcp"
    /\ reqs["c1"].settled # <<>>
    /\ reqs["c1"].settled[1].kind = "throw"
    /\ Reply(reqs["c1"]).status = 400
    /\ proc["http"].phase = "serving"

====
